---- MODULE Spec2Model ----
(***************************************************************************)
(* State-machine model of aleokdev/train-display:                          *)
(*   - modules/image_gen.py: split_digits, the glyph lookups and           *)
(*     ImageGenerator.gen_image (one action per loop iteration),           *)
(*   - modules/ipixel_commands.py: send_animation.                         *)
(* Strings are sequences of one-character strings; label text is a         *)
(* sequence of code points (the code takes ord(char) of every character).  *)
(* The canvas is represented by the list of alpha_composite calls made on  *)
(* it (ops): source image, destination, and the loop index that made it.   *)
(***************************************************************************)
EXTENDS Integers, Sequences, FiniteSets, TLC

VARIABLES
    req,          \* gen_image arguments and self.width / self.height
    pc,           \* position inside gen_image
    idx,          \* 1-based index of the current loop's next character
    current_x,    \* image_gen.py:138
    delay_x,      \* image_gen.py:152
    target_rect,  \* image_gen.py:154
    text_x,       \* image_gen.py:157
    digits,       \* image_gen.py:184
    offset,       \* image_gen.py:185
    ops,          \* alpha_composite calls made on output_img, in order
    events,       \* per-character outcome of the clock and label loops
    warnings,     \* characters reported by print("Warning: ...")
    call,         \* pure-function call under test: [fn, arg]
    ret,          \* its result, <<>> before the call returns
    tasks,        \* coroutines running on one IPixelScreen, ipixel.py:6-27
    connected,    \* self._client.connect() has completed
    writes        \* write_gatt_char calls begun on self._client, in order

gvars == <<req, pc, idx, current_x, delay_x, target_rect, text_x, digits,
           offset, ops, events, warnings>>
cvars == <<call, ret>>
tvars == <<tasks, connected, writes>>
vars == <<req, pc, idx, current_x, delay_x, target_rect, text_x, digits,
          offset, ops, events, warnings, call, ret, tasks, connected, writes>>

----------------------------------------------------------------------------
(* Bounds of the explored inputs *)

MaxTimeLen == 3
MaxTextLen == 2
MaxDelayLen == 3
MaxPlatform == 13
MaxSplitLen == 3
MaxBlobLen == 4

SeqsUpTo(S, n) == UNION {[1..k -> S] : k \in 0..n}

----------------------------------------------------------------------------
(* Characters and Python's str()/int()/str.isdigit() on them *)

DigitChars == <<"0", "1", "2", "3", "4", "5", "6", "7", "8", "9">>

\* str.isdigit() on the model's alphabet
IsDigit(ch) == \E d \in 1..10 : DigitChars[d] = ch

\* int(ch) for a one-character digit string
DigitValue(ch) == (CHOOSE d \in 1..10 : DigitChars[d] = ch) - 1

RECURSIVE NatToStr(_)
NatToStr(n) ==
    IF n < 10 THEN <<DigitChars[n + 1]>>
    ELSE NatToStr(n \div 10) \o <<DigitChars[(n % 10) + 1]>>

\* str(n) for an int n
IntToStr(n) == IF n < 0 THEN <<"-">> \o NatToStr(-n) ELSE NatToStr(n)

\* int(s) succeeds: optional sign followed by at least one digit
\* (whitespace and underscores are outside the model's alphabet)
IntParses(s) ==
    LET body == IF s # <<>> /\ s[1] \in {"+", "-"} THEN Tail(s) ELSE s
    IN  body # <<>> /\ \A k \in 1..Len(body) : IsDigit(body[k])

RECURSIVE DigitsToNat(_)
DigitsToNat(s) ==
    IF s = <<>> THEN 0
    ELSE 10 * DigitsToNat(SubSeq(s, 1, Len(s) - 1)) + DigitValue(s[Len(s)])

\* int(s) where IntParses(s)
IntOfStr(s) ==
    IF s[1] = "-" THEN 0 - DigitsToNat(Tail(s))
    ELSE IF s[1] = "+" THEN DigitsToNat(Tail(s))
    ELSE DigitsToNat(s)

----------------------------------------------------------------------------
(* image_gen.py: pure helpers *)

RECURSIVE FilterDigits(_)
FilterDigits(s) ==
    IF s = <<>> THEN <<>>
    ELSE IF IsDigit(s[1]) THEN <<s[1]>> \o FilterDigits(Tail(s))
    ELSE FilterDigits(Tail(s))

RECURSIVE StripLeadingZeros(_)
StripLeadingZeros(ds) ==
    IF Len(ds) > 1 /\ ds[1] = "0" THEN StripLeadingZeros(Tail(ds)) ELSE ds

\* mutant: the digits are taken from the number's value, losing leading zeros
split_digits_OfValue(s) ==
    LET stripped == IF s # <<>> /\ s[1] \in {"+", "-"} THEN Tail(s) ELSE s
        found == FilterDigits(stripped)
    IN  IF found # <<>> THEN StripLeadingZeros(found) ELSE <<"0">>

\* split_digits applied to str(number)
split_digits(s) ==
    LET stripped == IF s # <<>> /\ s[1] \in {"+", "-"} THEN Tail(s) ELSE s
        found == FilterDigits(stripped)
    IN  IF found # <<>> THEN found ELSE <<"0">>

\* A source image: a region <<left, upper, right, lower>> of a sheet; a whole
\* asset (colon, plus, overlay) has the empty box.
Region(sheet, box) == [sheet |-> sheet, box |-> box]

get_digit_from_tall_digits(digit) ==
    LET x_pos == DigitValue(digit) * 4
    IN  Region("tall_digits", <<x_pos, 0, x_pos + 4, 16>>)

get_digit_from_small_digits(digit) ==
    LET x_pos == DigitValue(digit) * 4
    IN  Region("small_digits", <<x_pos, 0, x_pos + 4, 7>>)

get_character_from_unifont(unicode_codepoint) ==
    LET high_byte == (unicode_codepoint \div 256) % 256
        low_byte == unicode_codepoint % 256
        char_x == 32 + (low_byte * 16)
        char_y == 64 + (high_byte * 16)
    IN  Region("unifont", <<char_x, char_y, char_x + 16, char_y + 16>>)

\* Image.crop(box) of a region: box is relative to the region's corner
Crop(img, box) ==
    Region(img.sheet, <<img.box[1] + box[1], img.box[2] + box[2],
                        img.box[1] + box[3], img.box[2] + box[4]>>)

ImgWidth(img) == img.box[3] - img.box[1]

\* 61 '=', 64 '@', 35 '#'; 1024..1279 is the Cyrillic block
char_width(codepoint) ==
    IF codepoint \in {61, 64, 35}
       \/ (codepoint >= 128 /\ ~(1024 <= codepoint /\ codepoint <= 1279))
    THEN 16 ELSE 8

\* "platform_number is int": identity with the type object, which no
\* platform value (an int or None) ever is
PlatformIsTypeInt(p) == FALSE

----------------------------------------------------------------------------
(* The canvas as its paint history *)

\* output_img.alpha_composite(img, dest) made by `step` for character i
Paint(step, i, img, dest) == [step |-> step, i |-> i, img |-> img, dest |-> dest]

\* Columns of the canvas a paint of a sheet region touches: Pillow crops the
\* destination box to the canvas
PaintedColumns(op) ==
    {c \in 0..(req.width - 1) : op.dest[1] <= c /\ c < op.dest[1] + ImgWidth(op.img)}

----------------------------------------------------------------------------
(* ImageGenerator.gen_image, image_gen.py:132-206 *)

\* image_gen.py:134
PlatformRejected(p) ==
    PlatformIsTypeInt(p) /\ ~(1 <= p[1] /\ p[1] <= 12)

\* mutant: the colon needs the room of a digit
ColonFits_RoomOfDigit(x, width) == x + 4 <= width

\* mutant: the colon is painted wherever the cursor is
ColonFits_Always(x, width) == TRUE

\* image_gen.py:143
ColonFits(x, width) == x + 1 <= width

\* mutant: a digit only has to start on the canvas
ClockDigitFits_StartOnCanvas(x, width) == x + 1 <= width

\* image_gen.py:148
ClockDigitFits(x, width) == x + 4 <= width

\* image_gen.py:198
DelayDigitFits(x, width) == x + 4 <= width

\* image_gen.py:152: the delay badge's anchor, given the clock cursor and the
\* label's starting cursor
DelayAnchor(cx, tx) == cx

\* mutant: the delay badge is painted before the platform badge
NextStep_DelayBeforePlatform(step) ==
    CASE step = "validate" -> "clock"
      [] step = "clock" -> "label"
      [] step = "label" -> "delay"
      [] step = "delay" -> "platform"
      [] step = "platform" -> "overlay"
      [] step = "overlay" -> "done"

\* The block that follows each block of gen_image (statement order of
\* image_gen.py:137-206)
NextStep(step) ==
    CASE step = "validate" -> "clock"
      [] step = "clock" -> "label"
      [] step = "label" -> "platform"
      [] step = "platform" -> "delay"
      [] step = "delay" -> "overlay"
      [] step = "overlay" -> "done"

\* image_gen.py:167-178: which branch a label character takes
LabelCase(left, tx, cw) ==
    IF left - tx >= cw THEN "skip"
    ELSE IF left - tx < 0 THEN "inside"
    ELSE "crop"

\* mutant: the straddling glyph is cut to its width but not left-cropped
LabelImage_NoLeftCrop(left, tx, cw, codepoint) ==
    IF LabelCase(left, tx, cw) = "inside"
    THEN get_character_from_unifont(codepoint)
    ELSE Crop(get_character_from_unifont(codepoint), <<0, 0, cw, 16>>)

\* image_gen.py:174 and :177-178: the image and destination of a label paint
LabelImage(left, tx, cw, codepoint) ==
    IF LabelCase(left, tx, cw) = "inside"
    THEN get_character_from_unifont(codepoint)
    ELSE Crop(get_character_from_unifont(codepoint), <<left - tx, 0, cw, 16>>)

\* mutant: the cropped glyph is pasted at its logical start
LabelDest_AtTextX(left, tx, cw) == <<tx, 0>>

LabelDest(left, tx, cw) ==
    IF LabelCase(left, tx, cw) = "inside" THEN <<tx, 0>> ELSE <<left, 0>>

\* mutant: the badge is centred as if a digit were 1 px wide
PlatformOffset_OnePerDigit(n) == 9 - n

\* image_gen.py:185
PlatformOffset(n) == 9 - n * 2

\* mutant: the badge is drawn for a zero delay as well
DelayShown_Always(d) == TRUE

\* mutant: only a positive delay shows the badge
DelayShown_PositiveOnly(d) == IntOfStr(d) > 0

\* image_gen.py:192
DelayShown(d) == IntOfStr(d) # 0

\* gen_image ended by raising: the platform check (line 135), int() of a
\* clock character (line 34 via 147), int(delay) (line 192)
Raised == pc \in {"raised_platform", "raised_clock", "raised_delay"}

\* gen_image returned output_img (line 206)
Returned == pc = "done"

Event(loop, i, x, w, painted) ==
    [loop |-> loop, i |-> i, x |-> x, w |-> w, painted |-> painted]

\* image_gen.py:134-138
GenImageBegin ==
    /\ pc = "validate"
    /\ IF PlatformRejected(req.platform_number)
       THEN pc' = "raised_platform"
       ELSE pc' = NextStep("validate")
    /\ UNCHANGED <<req, idx, current_x, delay_x, target_rect, text_x, digits,
                   offset, ops, events, warnings>>
    /\ UNCHANGED cvars
    /\ UNCHANGED tvars

\* image_gen.py:141-150, one iteration
ClockChar ==
    /\ pc = "clock"
    /\ idx <= Len(req.time)
    /\ LET time_char == req.time[idx]
       IN  IF time_char = ":"
           THEN IF ColonFits(current_x, req.width)
                THEN /\ ops' = Append(ops, Paint("clock", idx, Region("colon", <<>>),
                                                 <<current_x, 5>>))
                     /\ current_x' = current_x + 2
                     /\ events' = Append(events, Event("clock", idx, current_x, 2, TRUE))
                     /\ UNCHANGED pc
                ELSE /\ events' = Append(events, Event("clock", idx, current_x, 2, FALSE))
                     /\ UNCHANGED <<ops, current_x, pc>>
           ELSE IF ~IsDigit(time_char)
                THEN \* int(digit) raises ValueError in get_digit_from_tall_digits
                     /\ pc' = "raised_clock"
                     /\ UNCHANGED <<ops, current_x, events>>
                ELSE IF ClockDigitFits(current_x, req.width)
                     THEN /\ ops' = Append(ops, Paint("clock", idx,
                                                      get_digit_from_tall_digits(time_char),
                                                      <<current_x, 5>>))
                          /\ current_x' = current_x + 4
                          /\ events' = Append(events,
                                              Event("clock", idx, current_x, 4, TRUE))
                          /\ UNCHANGED pc
                     ELSE /\ events' = Append(events,
                                              Event("clock", idx, current_x, 4, FALSE))
                          /\ UNCHANGED <<ops, current_x, pc>>
    /\ idx' = idx + 1
    /\ UNCHANGED <<req, delay_x, target_rect, text_x, digits, offset, warnings>>
    /\ UNCHANGED cvars
    /\ UNCHANGED tvars

\* image_gen.py:152-157
ClockEnd ==
    /\ pc = "clock"
    /\ idx > Len(req.time)
    /\ delay_x' = DelayAnchor(current_x, current_x + req.text_x_offset)
    /\ target_rect' = <<current_x, 0, req.width, req.height>>
    /\ text_x' = current_x + req.text_x_offset
    /\ pc' = NextStep("clock")
    /\ idx' = 1
    /\ UNCHANGED <<req, current_x, digits, offset, ops, events, warnings>>
    /\ UNCHANGED cvars
    /\ UNCHANGED tvars

\* mutant: the label loop runs on for a character that starts at width
LabelBreaks_PastWidth(tx, width) == tx > width

\* image_gen.py:159-160
LabelBreaks(tx, width) == tx >= width

\* image_gen.py:158-180, one iteration that does not break
LabelChar ==
    /\ pc = "label"
    /\ idx <= Len(req.text)
    /\ ~LabelBreaks(text_x, req.width)
    /\ LET codepoint == req.text[idx]
           cw == char_width(codepoint)
           branch == LabelCase(target_rect[1], text_x, cw)
       IN  /\ ops' = IF branch = "skip" THEN ops
                     ELSE Append(ops, Paint("label", idx,
                                            LabelImage(target_rect[1], text_x, cw, codepoint),
                                            LabelDest(target_rect[1], text_x, cw)))
           /\ events' = Append(events, Event("label", idx, text_x, cw, branch # "skip"))
           /\ text_x' = text_x + cw
    /\ idx' = idx + 1
    /\ UNCHANGED <<req, pc, current_x, delay_x, target_rect, digits, offset, warnings>>
    /\ UNCHANGED cvars
    /\ UNCHANGED tvars

\* image_gen.py:158-160: the loop ends, by exhaustion or by break
LabelEnd ==
    /\ pc = "label"
    /\ (idx > Len(req.text) \/ LabelBreaks(text_x, req.width))
    /\ pc' = NextStep("label")
    /\ UNCHANGED <<req, idx, current_x, delay_x, target_rect, text_x, digits,
                   offset, ops, events, warnings>>
    /\ UNCHANGED cvars
    /\ UNCHANGED tvars

\* image_gen.py:183-185
PlatformBegin ==
    /\ pc = "platform"
    /\ IF req.platform_number # <<>>
       THEN LET ds == split_digits(IntToStr(req.platform_number[1]))
            IN  /\ digits' = ds
                /\ offset' = PlatformOffset(Len(ds))
                /\ idx' = 1
                /\ pc' = "platform_digit"
       ELSE /\ pc' = NextStep("platform")
            /\ UNCHANGED <<digits, offset, idx>>
    /\ UNCHANGED <<req, current_x, delay_x, target_rect, text_x, ops, events, warnings>>
    /\ UNCHANGED cvars
    /\ UNCHANGED tvars

\* image_gen.py:186-189, one iteration
PlatformDigit ==
    /\ pc = "platform_digit"
    /\ idx <= Len(digits)
    /\ ops' = Append(ops, Paint("platform", idx, get_digit_from_small_digits(digits[idx]),
                                <<offset, -1>>))
    /\ offset' = offset + 4
    /\ idx' = idx + 1
    /\ UNCHANGED <<req, pc, current_x, delay_x, target_rect, text_x, digits, events,
                   warnings>>
    /\ UNCHANGED cvars
    /\ UNCHANGED tvars

PlatformEnd ==
    /\ pc = "platform_digit"
    /\ idx > Len(digits)
    /\ pc' = NextStep("platform")
    /\ UNCHANGED <<req, idx, current_x, delay_x, target_rect, text_x, digits,
                   offset, ops, events, warnings>>
    /\ UNCHANGED cvars
    /\ UNCHANGED tvars

\* image_gen.py:192-194
DelayBegin ==
    /\ pc = "delay"
    /\ IF ~IntParses(req.delay)
       THEN \* int(delay) raises ValueError
            /\ pc' = "raised_delay"
            /\ UNCHANGED <<ops, delay_x, idx>>
       ELSE IF DelayShown(req.delay)
            THEN /\ ops' = Append(ops, Paint("delay", 0, Region("plus", <<>>),
                                             <<delay_x, 0>>))
                 /\ delay_x' = delay_x + 4
                 /\ idx' = 1
                 /\ pc' = "delay_digit"
            ELSE /\ pc' = NextStep("delay")
                 /\ UNCHANGED <<ops, delay_x, idx>>
    /\ UNCHANGED <<req, current_x, target_rect, text_x, digits, offset, events, warnings>>
    /\ UNCHANGED cvars
    /\ UNCHANGED tvars

\* image_gen.py:195-202, one iteration
DelayChar ==
    /\ pc = "delay_digit"
    /\ idx <= Len(req.delay)
    /\ LET digit_char == req.delay[idx]
       IN  IF IsDigit(digit_char)
           THEN IF DelayDigitFits(delay_x, req.width)
                THEN /\ ops' = Append(ops, Paint("delay", idx,
                                                 get_digit_from_small_digits(digit_char),
                                                 <<delay_x, 0>>))
                     /\ delay_x' = delay_x + 4
                     /\ UNCHANGED warnings
                ELSE UNCHANGED <<ops, delay_x, warnings>>
           ELSE /\ warnings' = Append(warnings, digit_char)
                /\ UNCHANGED <<ops, delay_x>>
    /\ idx' = idx + 1
    /\ UNCHANGED <<req, pc, current_x, target_rect, text_x, digits, offset, events>>
    /\ UNCHANGED cvars
    /\ UNCHANGED tvars

DelayEnd ==
    /\ pc = "delay_digit"
    /\ idx > Len(req.delay)
    /\ pc' = NextStep("delay")
    /\ UNCHANGED <<req, idx, current_x, delay_x, target_rect, text_x, digits,
                   offset, ops, events, warnings>>
    /\ UNCHANGED cvars
    /\ UNCHANGED tvars

\* image_gen.py:204-206
Overlay ==
    /\ pc = "overlay"
    /\ ops' = Append(ops, Paint("overlay", 0, Region("overlay", <<>>), <<0, 0>>))
    /\ pc' = NextStep("overlay")
    /\ UNCHANGED <<req, idx, current_x, delay_x, target_rect, text_x, digits,
                   offset, events, warnings>>
    /\ UNCHANGED cvars
    /\ UNCHANGED tvars

----------------------------------------------------------------------------
(* The calls explored *)

\* canvas widths: narrower than one digit, between glyph boundaries, and
\* wide enough for every clock text of the bound
Widths == {1, 5, 9, 24}

\* '1' a digit, ':' the colon, 'a' neither
TimeAlphabet == {"1", ":", "a"}

\* 65 'A' (8 px), 64 '@' (16 px), 233 e-acute (16 px), 1046 Cyrillic Zhe (8 px)
TextAlphabet == {65, 64, 233, 1046}

DelayAlphabet == {"0", "5", "-", "a"}

Offsets == {-9, -8, 0, 3}

NoPlatform == <<>>

Request(width, time, text, delay, platform_number, text_x_offset) ==
    [width |-> width, height |-> 16, time |-> time, text |-> text, delay |-> delay,
     platform_number |-> platform_number, text_x_offset |-> text_x_offset]

ClockRequests ==
    {Request(w, t, <<65>>, <<"5">>, NoPlatform, 0) :
        w \in Widths, t \in SeqsUpTo(TimeAlphabet, MaxTimeLen)}

LabelRequests ==
    {Request(w, t, x, <<"0">>, NoPlatform, o) :
        w \in Widths, t \in {<<>>, <<"1">>, <<":">>},
        x \in SeqsUpTo(TextAlphabet, MaxTextLen), o \in Offsets}

PlatformRequests ==
    {Request(24, <<"1">>, <<65>>, d, <<p>>, 0) :
        d \in {<<"0">>, <<"5">>}, p \in (-3..MaxPlatform) \cup {100}}

DelayRequests ==
    {Request(w, t, <<65>>, d, p, 0) :
        w \in Widths, t \in {<<>>, <<"1">>, <<"1", ":", "1">>},
        d \in SeqsUpTo(DelayAlphabet, MaxDelayLen), p \in {NoPlatform, <<3>>}}

\* "12:34" with "Mechelen" and with a short accented label, on the 64x16 canvas of main.py
ScenarioRequests ==
    {Request(64, <<"1", "2", ":", "3", "4">>, x, d, p, o) :
        x \in {<<77, 101, 99, 104, 101, 108, 101, 110>>, <<76, 105, 232, 103, 101>>},
        d \in {<<"0">>, <<"5">>, <<"1", "2">>},
        p \in {NoPlatform, <<3>>, <<12>>}, o \in {0, -9}}

Requests ==
    ClockRequests \cup LabelRequests \cup PlatformRequests \cup DelayRequests
        \cup ScenarioRequests

NoCall == [fn |-> "none", arg |-> <<>>]

\* no coroutine was created on the screen
TxIdle ==
    /\ tasks = <<>>
    /\ connected = FALSE
    /\ writes = <<>>

Init ==
    /\ req \in Requests
    /\ pc = "validate"
    /\ idx = 1
    /\ current_x = 0
    /\ delay_x = 0
    /\ target_rect = <<0, 0, 0, 0>>
    /\ text_x = 0
    /\ digits = <<>>
    /\ offset = 0
    /\ ops = <<>>
    /\ events = <<>>
    /\ warnings = <<>>
    /\ call = NoCall
    /\ ret = <<>>
    /\ TxIdle

Next ==
    \/ GenImageBegin
    \/ ClockChar
    \/ ClockEnd
    \/ LabelChar
    \/ LabelEnd
    \/ PlatformBegin
    \/ PlatformDigit
    \/ PlatformEnd
    \/ DelayBegin
    \/ DelayChar
    \/ DelayEnd
    \/ Overlay

Spec == Init /\ [][Next]_vars

----------------------------------------------------------------------------
(* split_digits as a call of its own: image_gen.py:7-21 *)

\* gen_image is not running
GenIdle ==
    /\ req = Request(1, <<>>, <<>>, <<"0">>, NoPlatform, 0)
    /\ pc = "idle"
    /\ idx = 1
    /\ current_x = 0
    /\ delay_x = 0
    /\ target_rect = <<0, 0, 0, 0>>
    /\ text_x = 0
    /\ digits = <<>>
    /\ offset = 0
    /\ ops = <<>>
    /\ events = <<>>
    /\ warnings = <<>>

\* '+' and '-' signs, '0' and '7' digits, 'a' and '.' neither
SplitAlphabet == {"+", "-", "0", "7", "a", "."}

SplitDigitsCall ==
    /\ call.fn = "split_digits"
    /\ ret = <<>>
    /\ ret' = <<split_digits(call.arg)>>
    /\ UNCHANGED call
    /\ UNCHANGED gvars
    /\ UNCHANGED tvars

InitSplit ==
    /\ GenIdle
    /\ TxIdle
    /\ call \in {[fn |-> "split_digits", arg |-> s] :
                    s \in SeqsUpTo(SplitAlphabet, MaxSplitLen)}
    /\ ret = <<>>

SpecSplit == InitSplit /\ [][SplitDigitsCall]_vars

----------------------------------------------------------------------------
(* ipixel_commands.py: send_animation.  Byte strings are sequences of       *)
(* 0..255; a hex string of 2n characters is the n bytes it spells.          *)

RECURSIVE Xor(_, _)
Xor(a, b) ==
    IF a = 0 THEN b
    ELSE IF b = 0 THEN a
    ELSE ((a + b) % 2) + 2 * Xor(a \div 2, b \div 2)

\* One bit of the reflected CRC-32 (polynomial EDB88320) on a 32-bit value
\* held as <<high 16 bits, low 16 bits>>
CrcShift(c) ==
    LET hi == c[1] \div 2
        lo == (c[2] \div 2) + (c[1] % 2) * 32768
    IN  IF c[2] % 2 = 1 THEN <<Xor(hi, 60856), Xor(lo, 33568)>> ELSE <<hi, lo>>

\* (the set constructors make TLC evaluate each intermediate value once)
RECURSIVE CrcShifts(_, _)
CrcShifts(c, n) ==
    IF n = 0 THEN c
    ELSE CHOOSE r \in {CrcShifts(v, n - 1) : v \in {CrcShift(c)}} : TRUE

RECURSIVE CrcBytes(_, _)
CrcBytes(c, data) ==
    IF data = <<>> THEN c
    ELSE CHOOSE r \in {CrcBytes(v, Tail(data)) :
                          v \in {CrcShifts(<<c[1], Xor(c[2], data[1])>>, 8)}} : TRUE

\* bit_tools.CRC32_checksum: the CRC-32 of the bytes, as 4 bytes
CRC32_checksum(data) ==
    LET c == CrcBytes(<<65535, 65535>>, data)
        hi == Xor(c[1], 65535)
        lo == Xor(c[2], 65535)
    IN  <<hi \div 256, hi % 256, lo \div 256, lo % 256>>

RECURSIVE FixedWidth(_, _)
FixedWidth(n, nbytes) ==
    IF nbytes = 0 THEN <<>>
    ELSE FixedWidth(n \div 256, nbytes - 1) \o <<n % 256>>

\* bit_tools.get_frame_size(data, size): the byte length of data as a
\* fixed-width field of `size` = nchars hex characters
get_frame_size(data, nchars) == FixedWidth(Len(data), nchars \div 2)

\* mutant: the size field counts the sub-command tag as well
send_animation_SizeOfInnerFrame(arg) ==
    IF arg.kind # "Image"
    THEN [raised |-> TRUE, bytes |-> <<>>]
    ELSE LET hex_data == arg.gif
             checksum == CRC32_checksum(hex_data)
             size == get_frame_size(<<2, 1>> \o hex_data, 8)
         IN  [raised |-> FALSE,
              bytes |-> get_frame_size(<<255, 255, 3, 0, 0>> \o size \o checksum
                                           \o <<2, 1>> \o hex_data, 4)
                          \o <<3, 0, 0>> \o size \o checksum \o <<2, 1>> \o hex_data]

\* mutant: the checksum covers the sub-command tag as well
send_animation_ChecksumOfInnerFrame(arg) ==
    IF arg.kind # "Image"
    THEN [raised |-> TRUE, bytes |-> <<>>]
    ELSE LET hex_data == arg.gif
             checksum == CRC32_checksum(<<2, 1>> \o hex_data)
             size == get_frame_size(hex_data, 8)
         IN  [raised |-> FALSE,
              bytes |-> get_frame_size(<<255, 255, 3, 0, 0>> \o size \o checksum
                                           \o <<2, 1>> \o hex_data, 4)
                          \o <<3, 0, 0>> \o size \o checksum \o <<2, 1>> \o hex_data]

\* mutant: the outer length field counts the inner envelope only
send_animation_LenOfInnerEnvelope(arg) ==
    IF arg.kind # "Image"
    THEN [raised |-> TRUE, bytes |-> <<>>]
    ELSE LET hex_data == arg.gif
             checksum == CRC32_checksum(hex_data)
             size == get_frame_size(hex_data, 8)
         IN  [raised |-> FALSE,
              bytes |-> get_frame_size(<<3, 0, 0>> \o size \o checksum
                                           \o <<2, 1>> \o hex_data, 4)
                          \o <<3, 0, 0>> \o size \o checksum \o <<2, 1>> \o hex_data]

\* ipixel_commands.py:62-74; arg.kind is the Python type of the argument
send_animation(arg) ==
    IF arg.kind # "Image"
    THEN \* hex_data is never bound: UnboundLocalError at line 72
         [raised |-> TRUE, bytes |-> <<>>]
    ELSE LET hex_data == arg.gif
             checksum == CRC32_checksum(hex_data)
             size == get_frame_size(hex_data, 8)
         IN  [raised |-> FALSE,
              bytes |-> get_frame_size(<<255, 255, 3, 0, 0>> \o size \o checksum
                                           \o <<2, 1>> \o hex_data, 4)
                          \o <<3, 0, 0>> \o size \o checksum \o <<2, 1>> \o hex_data]

\* bytes of the GIF container that image.save writes
BlobBytes == {0, 71, 255}

SendAnimationCall ==
    /\ call.fn = "send_animation"
    /\ ret = <<>>
    /\ ret' = <<send_animation(call.arg)>>
    /\ UNCHANGED call
    /\ UNCHANGED gvars
    /\ UNCHANGED tvars

InitFrame ==
    /\ GenIdle
    /\ TxIdle
    /\ call \in {[fn |-> "send_animation", arg |-> [kind |-> k, gif |-> g]] :
                    k \in {"Image", "BytesIO"}, g \in SeqsUpTo(BlobBytes, MaxBlobLen)}
    /\ ret = <<>>

SpecFrame == InitFrame /\ [][SendAnimationCall]_vars

----------------------------------------------------------------------------
(* ipixel_commands.py: device commands *)

MaxBrightnessArg == 103
MaxScreenArg == 4100
MaxArgLen == 3

HexChars == <<"0", "1", "2", "3", "4", "5", "6", "7", "8", "9",
              "a", "b", "c", "d", "e", "f">>

IsHexChar(ch) == \E d \in 1..16 : HexChars[d] = ch

HexValue(ch) == (CHOOSE d \in 1..16 : HexChars[d] = ch) - 1

RECURSIVE NatToHex(_)
NatToHex(n) ==
    IF n < 16 THEN <<HexChars[n + 1]>>
    ELSE NatToHex(n \div 16) \o <<HexChars[(n % 16) + 1]>>

\* f"{n:02x}": lower-case hex, zero-padded to a width of 2 that counts the sign
int_to_hex(n) ==
    IF n < 0 THEN <<"-">> \o NatToHex(0 - n)
    ELSE IF n < 16 THEN <<"0">> \o NatToHex(n)
    ELSE NatToHex(n)

RECURSIVE HexPairs(_)
HexPairs(s) ==
    IF s = <<>> THEN <<>>
    ELSE <<16 * HexValue(s[1]) + HexValue(s[2])>> \o HexPairs(SubSeq(s, 3, Len(s)))

\* bytes.fromhex(s): ValueError unless s is an even number of hex digits
bytes_fromhex(s) ==
    IF (\E k \in 1..Len(s) : ~IsHexChar(s[k])) \/ Len(s) % 2 = 1
    THEN [raised |-> TRUE, bytes |-> <<>>]
    ELSE [raised |-> FALSE, bytes |-> HexPairs(s)]

\* to_int: int(value) of an int or of a str, ValueError if the str does not parse
to_int(value) ==
    IF value.kind = "int" THEN [raised |-> FALSE, value |-> value.v]
    ELSE IF IntParses(value.s) THEN [raised |-> FALSE, value |-> IntOfStr(value.s)]
    ELSE [raised |-> TRUE, value |-> 0]

\* validate_range returns (TRUE) or raises ValueError (FALSE)
validate_range(value, min_val, max_val) == min_val <= value /\ value <= max_val

clear == [raised |-> FALSE, bytes |-> <<4, 0, 3, 128>>]

set_brightness(value) ==
    LET n == to_int(value)
    IN  IF n.raised \/ ~validate_range(n.value, 0, 100)
        THEN [raised |-> TRUE, bytes |-> <<>>]
        ELSE LET tail == bytes_fromhex(int_to_hex(n.value))
             IN  IF tail.raised THEN [raised |-> TRUE, bytes |-> <<>>]
                 ELSE [raised |-> FALSE, bytes |-> <<5, 0, 4, 128>> \o tail.bytes]

led_off == [raised |-> FALSE, bytes |-> <<5, 0, 7, 1, 0>>]

led_on == [raised |-> FALSE, bytes |-> <<5, 0, 7, 1, 1>>]

\* no validate_range call: only to_int and bytes.fromhex can raise
delete_screen(n) ==
    LET i == to_int(n)
    IN  IF i.raised THEN [raised |-> TRUE, bytes |-> <<>>]
        ELSE LET tail == bytes_fromhex(int_to_hex(i.value))
             IN  IF tail.raised THEN [raised |-> TRUE, bytes |-> <<>>]
                 ELSE [raised |-> FALSE, bytes |-> <<7, 0, 2, 1, 1, 0>> \o tail.bytes]

ClearCall ==
    /\ call.fn = "clear"
    /\ ret = <<>>
    /\ ret' = <<clear>>
    /\ UNCHANGED call
    /\ UNCHANGED gvars
    /\ UNCHANGED tvars

SetBrightnessCall ==
    /\ call.fn = "set_brightness"
    /\ ret = <<>>
    /\ ret' = <<set_brightness(call.arg)>>
    /\ UNCHANGED call
    /\ UNCHANGED gvars
    /\ UNCHANGED tvars

LedOffCall ==
    /\ call.fn = "led_off"
    /\ ret = <<>>
    /\ ret' = <<led_off>>
    /\ UNCHANGED call
    /\ UNCHANGED gvars
    /\ UNCHANGED tvars

LedOnCall ==
    /\ call.fn = "led_on"
    /\ ret = <<>>
    /\ ret' = <<led_on>>
    /\ UNCHANGED call
    /\ UNCHANGED gvars
    /\ UNCHANGED tvars

DeleteScreenCall ==
    /\ call.fn = "delete_screen"
    /\ ret = <<>>
    /\ ret' = <<delete_screen(call.arg)>>
    /\ UNCHANGED call
    /\ UNCHANGED gvars
    /\ UNCHANGED tvars

IntArg(n) == [kind |-> "int", v |-> n, s |-> <<>>]

StrArg(s) == [kind |-> "str", v |-> 0, s |-> s]

NoArg == [kind |-> "none", v |-> 0, s |-> <<>>]

ArgAlphabet == {"0", "1", "9", "-", "a"}

StrArgs == {StrArg(s) : s \in SeqsUpTo(ArgAlphabet, MaxArgLen)}

BrightnessArgs == {IntArg(n) : n \in (0 - 3)..MaxBrightnessArg} \cup StrArgs

ScreenArgs ==
    {IntArg(n) : n \in ((0 - 3)..MaxScreenArg) \cup {65535, 65536}} \cup StrArgs

InitCmd ==
    /\ GenIdle
    /\ TxIdle
    /\ call \in {[fn |-> f, arg |-> NoArg] : f \in {"clear", "led_off", "led_on"}}
            \cup {[fn |-> "set_brightness", arg |-> a] : a \in BrightnessArgs}
            \cup {[fn |-> "delete_screen", arg |-> a] : a \in ScreenArgs}
    /\ ret = <<>>

NextCmd ==
    \/ ClearCall
    \/ SetBrightnessCall
    \/ LedOffCall
    \/ LedOnCall
    \/ DeleteScreenCall

SpecCmd == InitCmd /\ [][NextCmd]_vars

----------------------------------------------------------------------------
(* ipixel.py: IPixelScreen *)

NumTasks == 2
MaxImages == 2

Tasks == 1..NumTasks

\* the GIF bytes image.save writes for a canvas (ipixel.py:11-15)
Canvases == {<<71>>, <<71, 0>>}

\* ipixel.py:16: send_animation is handed buf, the BytesIO, not the image
SendImageCommand(image) == send_animation([kind |-> "BytesIO", gif |-> image])

\* update_screen from its image number i on, up to where the coroutine is
\* suspended (the await of line 17), returns (the images are exhausted) or
\* raises (line 16); base is the write log so far
Proceed(t, i, base) ==
    IF i > Len(tasks[t].images)
    THEN /\ tasks' = [tasks EXCEPT ![t].pc = "returned"]
         /\ writes' = base
    ELSE LET cmd_bytes == SendImageCommand(tasks[t].images[i])
         IN  IF cmd_bytes.raised
             THEN /\ tasks' = [tasks EXCEPT ![t].pc = "raised", ![t].i = i]
                  /\ writes' = base
             ELSE /\ tasks' = [tasks EXCEPT ![t].pc = "writing", ![t].i = i]
                  /\ writes' = Append(base, [task |-> t, i |-> i,
                                             bytes |-> cmd_bytes.bytes,
                                             connected |-> connected,
                                             done |-> FALSE])

\* ipixel.py:22-27 with _send_image (10-17), run to its first suspension
UpdateScreenCall(t) ==
    /\ t \in DOMAIN tasks
    /\ tasks[t].fn = "update_screen"
    /\ tasks[t].pc = "called"
    /\ Proceed(t, 1, writes)
    /\ UNCHANGED connected
    /\ UNCHANGED gvars
    /\ UNCHANGED cvars

\* ipixel.py:19-20, up to the await
ConnectCall(t) ==
    /\ t \in DOMAIN tasks
    /\ tasks[t].fn = "connect"
    /\ tasks[t].pc = "called"
    /\ tasks' = [tasks EXCEPT ![t].pc = "connecting"]
    /\ UNCHANGED <<connected, writes>>
    /\ UNCHANGED gvars
    /\ UNCHANGED cvars

\* the awaited client operation of a suspended coroutine completes and the
\* coroutine runs on: connect returns (line 20); update_screen goes to its
\* next image (lines 17, 24-25)
AwaitCompletes(t) ==
    /\ t \in DOMAIN tasks
    /\ tasks[t].pc \in {"connecting", "writing"}
    /\ IF tasks[t].pc = "connecting"
       THEN /\ connected' = TRUE
            /\ tasks' = [tasks EXCEPT ![t].pc = "returned"]
            /\ UNCHANGED writes
       ELSE /\ Proceed(t, tasks[t].i + 1,
                       [k \in 1..Len(writes) |->
                           IF writes[k].task = t
                           THEN [writes[k] EXCEPT !.done = TRUE] ELSE writes[k]])
            /\ UNCHANGED connected
    /\ UNCHANGED gvars
    /\ UNCHANGED cvars

\* a coroutine object: cli.py:39 and main.py:116 pass one image, other
\* callers may pass a list; connect takes nothing
UpdateScreenTask(images, is_list) ==
    [fn |-> "update_screen", images |-> images, is_list |-> is_list,
     pc |-> "called", i |-> 0]

ConnectTask ==
    [fn |-> "connect", images |-> <<>>, is_list |-> FALSE, pc |-> "called", i |-> 0]

TaskCalls ==
    {ConnectTask}
        \cup {UpdateScreenTask(<<c>>, FALSE) : c \in Canvases}
        \cup {UpdateScreenTask(s, TRUE) : s \in SeqsUpTo(Canvases, MaxImages)}

InitTx ==
    /\ GenIdle
    /\ call = NoCall
    /\ ret = <<>>
    /\ tasks \in [Tasks -> TaskCalls]
    /\ connected = FALSE
    /\ writes = <<>>

NextTx ==
    \E t \in Tasks :
        \/ UpdateScreenCall(t)
        \/ ConnectCall(t)
        \/ AwaitCompletes(t)

SpecTx == InitTx /\ [][NextTx]_vars

----------------------------------------------------------------------------
(* Claims *)

StepOps(step) == SelectSeq(ops, LAMBDA o : o.step = step)

LoopEvents(loop) == SelectSeq(events, LAMBDA e : e.loop = loop)

\* C1: gen_image rejects every platform number outside 1..12: the call fails
\* and returns no canvas.
C1_OutOfRangePlatformRejected ==
    (req.platform_number # NoPlatform
        /\ ~(1 <= req.platform_number[1] /\ req.platform_number[1] <= 12))
    => ~Returned

\* C2: the label step paints no canvas column left of targetRectLeft (the
\* cursor reached after the clock step) and none at or beyond width.
C2_LabelPaintsInsideTargetRect ==
    \A k \in 1..Len(ops) :
        ops[k].step = "label" =>
            \A c \in PaintedColumns(ops[k]) :
                target_rect[1] <= c /\ c < req.width

\* a returned canvas where a label glyph starting left of the target rectangle
\* was painted, and a label paint reached past the right edge
C2_Witness ==
    /\ Returned
    /\ \E n \in 1..Len(events) :
          /\ events[n].loop = "label"
          /\ events[n].painted
          /\ events[n].x < target_rect[1]
    /\ \E k \in 1..Len(ops) :
          /\ ops[k].step = "label"
          /\ PaintedColumns(ops[k]) # {}
          /\ ops[k].dest[1] + ImgWidth(ops[k].img) > req.width

\* C3: a label character with logical start x and width w (8 or 16), against
\* the target rectangle's left edge L, is not painted when x + w <= L, is
\* painted at L with its left L - x columns cropped away when x < L < x + w,
\* and is painted at x with nothing cropped from its glyph when x >= L; in
\* every case the cursor advances by w.
C3_LabelGlyphCases ==
    LET L == target_rect[1]
        labelEvents == LoopEvents("label")
    IN  /\ \A n \in 1..Len(labelEvents) :
              LET e == labelEvents[n]
                  cell == get_character_from_unifont(req.text[e.i])
                  mine == {k \in 1..Len(ops) : ops[k].step = "label" /\ ops[k].i = e.i}
              IN  /\ e.w \in {8, 16}
                  /\ e.i = n
                  /\ (e.x + e.w <= L) => mine = {}
                  /\ (e.x < L /\ L < e.x + e.w) =>
                        \E k \in mine :
                            /\ mine = {k}
                            /\ ops[k].dest = <<L, 0>>
                            /\ ops[k].img.sheet = "unifont"
                            /\ ops[k].img.box = <<cell.box[1] + (L - e.x), cell.box[2],
                                                  cell.box[1] + e.w, cell.box[4]>>
                  /\ (e.x >= L) =>
                        \E k \in mine :
                            /\ mine = {k}
                            /\ ops[k].dest = <<e.x, 0>>
                            /\ ops[k].img.sheet = "unifont"
                            /\ ops[k].img.box[1] = cell.box[1]
                            /\ ops[k].img.box[2] = cell.box[2]
                            /\ ops[k].img.box[4] = cell.box[4]
                            /\ ops[k].img.box[3] >= cell.box[1] + e.w
                  /\ e.x = IF n = 1 THEN current_x + req.text_x_offset
                           ELSE labelEvents[n - 1].x + labelEvents[n - 1].w
        /\ labelEvents # <<>> =>
              text_x = labelEvents[Len(labelEvents)].x + labelEvents[Len(labelEvents)].w

\* a returned canvas whose label had a skipped glyph, a strictly straddling
\* glyph and a glyph strictly inside
C3_Witness ==
    /\ Returned
    /\ \E a, b, c \in 1..Len(events) :
          /\ events[a].loop = "label" /\ events[a].x + events[a].w <= target_rect[1]
          /\ events[b].loop = "label" /\ events[b].x < target_rect[1]
                                      /\ target_rect[1] < events[b].x + events[b].w
          /\ events[c].loop = "label" /\ events[c].x > target_rect[1]

\* the cursor after the first n clock events
RECURSIVE ClockCursor(_, _)
ClockCursor(ev, n) ==
    IF n = 0 THEN 0
    ELSE ClockCursor(ev, n - 1) + (IF ev[n].painted THEN ev[n].w ELSE 0)

\* C4 as stated: in the clock step a character is painted (':' advancing 2,
\* anything else 4) unless its start position is at or past width, so a digit
\* that starts below width is always painted.
C4_DroppedOnlyAtOrPastWidth ==
    \A n \in 1..Len(events) :
        events[n].loop = "clock" => (events[n].painted <=> events[n].x < req.width)

\* C4 amended: left to right from x = 0, a ':' is painted (advance 2) exactly
\* when its start is below width, a decimal digit is painted as a tall digit
\* (advance 4) exactly when start + 4 <= width; a character that is not
\* painted is dropped without error and leaves the cursor where it was.
C4_ClockDropsWhatDoesNotFit ==
    LET clockEvents == LoopEvents("clock")
    IN  /\ \A n \in 1..Len(clockEvents) :
              LET e == clockEvents[n]
                  ch == req.time[e.i]
                  mine == {k \in 1..Len(ops) : ops[k].step = "clock" /\ ops[k].i = e.i}
              IN  /\ e.i = n
                  /\ e.x = ClockCursor(clockEvents, n - 1)
                  /\ ch = ":" => (e.w = 2 /\ (e.painted <=> e.x < req.width))
                  /\ ch # ":" => (e.w = 4 /\ IsDigit(ch)
                                  /\ (e.painted <=> e.x + 4 <= req.width))
                  /\ e.painted =>
                        \E k \in mine :
                            /\ mine = {k}
                            /\ ops[k].dest = <<e.x, 5>>
                            /\ ops[k].img = IF ch = ":" THEN Region("colon", <<>>)
                                            ELSE get_digit_from_tall_digits(ch)
                  /\ ~e.painted => mine = {}
        /\ pc = "clock" =>
              /\ Len(clockEvents) = idx - 1
              /\ current_x = ClockCursor(clockEvents, Len(clockEvents))
        /\ (pc \notin {"validate", "clock"} /\ ~Raised) =>
              /\ Len(clockEvents) = Len(req.time)
              /\ current_x = ClockCursor(clockEvents, Len(clockEvents))
        /\ pc = "raised_clock" =>
              (req.time[idx - 1] # ":" /\ ~IsDigit(req.time[idx - 1]))

\* a returned canvas whose clock step dropped a digit that starts below width
\* and painted a character before it
C4_Witness ==
    /\ Returned
    /\ \E a, b \in 1..Len(events) :
          /\ events[a].loop = "clock" /\ events[a].painted
          /\ events[b].loop = "clock" /\ ~events[b].painted
          /\ events[b].w = 4 /\ events[b].x < req.width /\ events[b].x > 0

\* number of decimal-digit characters of a string
RECURSIVE CountDigitChars(_)
CountDigitChars(str) ==
    IF str = <<>> THEN 0
    ELSE (IF str[1] \in {"0", "1", "2", "3", "4", "5", "6", "7", "8", "9"} THEN 1 ELSE 0)
         + CountDigitChars(Tail(str))

\* C5: the plus glyph is painted iff the delay is non-zero, at x =
\* delayAnchorX (the cursor after the clock step, whatever the label and
\* platform steps did); the k-th painted delay digit is at delayAnchorX + 4 +
\* 4k; digits stop being painted once the cursor would exceed width.
C5_DelayBadgeAtAnchor ==
    LET anchor == target_rect[1]
        delayOps == StepOps("delay")
        room == req.width - (anchor + 4)
        fit == IF room < 0 THEN 0 ELSE room \div 4
        wanted == CountDigitChars(req.delay)
    IN  /\ Returned => (delayOps # <<>> <=> IntOfStr(req.delay) # 0)
        /\ \A k \in 1..Len(delayOps) :
              IF k = 1
              THEN /\ delayOps[k].img = Region("plus", <<>>)
                   /\ delayOps[k].dest = <<anchor, 0>>
                   /\ anchor = current_x
              ELSE /\ delayOps[k].img = get_digit_from_small_digits(req.delay[delayOps[k].i])
                   /\ delayOps[k].dest = <<anchor + 4 + 4 * (k - 2), 0>>
                   /\ delayOps[k].dest[1] + 4 <= req.width
        /\ (Returned /\ delayOps # <<>>) =>
              Len(delayOps) - 1 = IF wanted < fit THEN wanted ELSE fit

\* a returned canvas with the plus glyph, two painted delay digits and a
\* dropped one, after a label that moved its own cursor
C5_Witness ==
    /\ Returned
    /\ Len(StepOps("delay")) = 3
    /\ CountDigitChars(req.delay) = 3
    /\ text_x # target_rect[1]
    /\ target_rect[1] > 0

StepRank(step) ==
    CASE step = "clock" -> 1
      [] step = "label" -> 2
      [] step = "platform" -> 3
      [] step = "delay" -> 4
      [] step = "overlay" -> 5

\* C7: paints occur in the order clock, label, platform badge, delay badge,
\* overlay, and a returned canvas has exactly one overlay composite, which is
\* its last paint.
C7_PaintOrder ==
    /\ \A j, k \in 1..Len(ops) :
          j < k => StepRank(ops[j].step) <= StepRank(ops[k].step)
    /\ Len(StepOps("overlay")) <= 1
    /\ StepOps("overlay") # <<>> => Returned
    /\ Returned =>
          /\ Len(StepOps("overlay")) = 1
          /\ ops[Len(ops)].step = "overlay"

\* a returned canvas on which every step painted
C7_Witness ==
    /\ Returned
    /\ \A step \in {"clock", "label", "platform", "delay", "overlay"} :
          StepOps(step) # <<>>

\* C9: with the platform absent or in 1..12 (and a positive canvas size)
\* gen_image never raises, whatever the clock text, label text, delay value
\* and text offset are.
C9_NeverAborts ==
    (req.width > 0 /\ req.height > 0
        /\ (req.platform_number = NoPlatform
              \/ (1 <= req.platform_number[1] /\ req.platform_number[1] <= 12)))
    => ~Raised

\* split_digits returned
SplitReturned == call.fn = "split_digits" /\ ret # <<>>

DecimalDigits == {"0", "1", "2", "3", "4", "5", "6", "7", "8", "9"}

\* the input with one leading sign character removed
SplitRemainder ==
    IF call.arg # <<>> /\ (call.arg[1] = "+" \/ call.arg[1] = "-")
    THEN SubSeq(call.arg, 2, Len(call.arg))
    ELSE call.arg

\* positions of the remainder that hold a decimal digit
SplitDigitPositions == {k \in 1..Len(SplitRemainder) : SplitRemainder[k] \in DecimalDigits}

\* the result is the remainder's digit characters, in their order
SplitKeepsDigitsInOrder ==
    /\ Len(ret[1]) = Cardinality(SplitDigitPositions)
    /\ \A k \in SplitDigitPositions :
          ret[1][Cardinality({j \in SplitDigitPositions : j <= k})] = SplitRemainder[k]

\* C8 as stated: split_digits strips at most one leading sign and returns the
\* remainder's digit characters in order, and it returns ["0"] if and only if
\* the remainder holds no digit character.
C8_ZeroIffNoDigits ==
    SplitReturned =>
        /\ SplitDigitPositions # {} => SplitKeepsDigitsInOrder
        /\ ret[1] = <<"0">> <=> SplitDigitPositions = {}

\* C8 amended: the result is the remainder's digit characters in order
\* (leading zeros kept) when there is one, and ["0"] when there is none; so
\* it is ["0"] iff the remainder holds no digit or its only digit is one '0'.
C8_SplitDigits ==
    SplitReturned =>
        /\ SplitDigitPositions # {} => SplitKeepsDigitsInOrder
        /\ SplitDigitPositions = {} => ret[1] = <<"0">>
        /\ ret[1] = <<"0">> <=>
              \/ SplitDigitPositions = {}
              \/ /\ Cardinality(SplitDigitPositions) = 1
                 /\ \A k \in SplitDigitPositions : SplitRemainder[k] = "0"

\* "-07" was split into '0', '7'
C8_Witness ==
    /\ SplitReturned
    /\ call.arg = <<"-", "0", "7">>
    /\ ret[1] = <<"0", "7">>

\* send_animation returned an envelope
FrameReturned == call.fn = "send_animation" /\ ret # <<>> /\ ~ret[1].raised

RECURSIVE BigEndian(_)
BigEndian(bs) ==
    IF bs = <<>> THEN 0
    ELSE 256 * BigEndian(SubSeq(bs, 1, Len(bs) - 1)) + bs[Len(bs)]

\* fields of the returned envelope: len4 (2 bytes), command tag (3), len8 (4),
\* checksum (4), then the inner frame
EnvLen8 == SubSeq(ret[1].bytes, 6, 9)
EnvInnerFrame == SubSeq(ret[1].bytes, 14, Len(ret[1].bytes))

\* C10 as stated: len8 encodes the byte length of innerFrame (the tag 02 01
\* followed by the blob), that is blob length + 2.
C10_Len8IsInnerFrameLength ==
    FrameReturned => BigEndian(EnvLen8) = Len(EnvInnerFrame)

\* C10 amended: len8 encodes the byte length of the container blob alone,
\* which is the length of innerFrame minus 2.
C10_Len8IsBlobLength ==
    FrameReturned =>
        /\ SubSeq(ret[1].bytes, 3, 5) = <<3, 0, 0>>
        /\ EnvInnerFrame = <<2, 1>> \o call.arg.gif
        /\ BigEndian(EnvLen8) = Len(call.arg.gif)
        /\ BigEndian(EnvLen8) = Len(EnvInnerFrame) - 2

\* an envelope for a blob of at least three bytes
C10_Witness ==
    /\ FrameReturned
    /\ Len(call.arg.gif) >= 3

EnvChecksum == SubSeq(ret[1].bytes, 10, 13)

\* C11 as stated: the checksum field is the CRC-32 of innerFrame (the tag
\* 02 01 followed by the blob), that is of exactly the bytes that follow the
\* checksum field in the envelope.
C11_ChecksumOfInnerFrame ==
    FrameReturned => EnvChecksum = CRC32_checksum(EnvInnerFrame)

\* C11 amended: the checksum field is the CRC-32 of the container blob alone,
\* that is of the bytes that follow the 2-byte sub-command tag; the tag bytes
\* after the checksum field are not covered by it.
C11_ChecksumOfBlob ==
    FrameReturned =>
        /\ EnvInnerFrame = <<2, 1>> \o call.arg.gif
        /\ EnvChecksum = CRC32_checksum(call.arg.gif)
        /\ EnvChecksum = CRC32_checksum(SubSeq(ret[1].bytes, 16, Len(ret[1].bytes)))
        /\ EnvChecksum # CRC32_checksum(EnvInnerFrame)

\* an envelope for the one-byte blob 00, whose CRC-32 is D2 02 EF 8D
C11_Witness ==
    /\ FrameReturned
    /\ call.arg.gif = <<0>>
    /\ EnvChecksum = <<210, 2, 239, 141>>

\* the inner envelope: command tag, len8, checksum, innerFrame
InnerEnvelope(blob) ==
    <<3, 0, 0>> \o FixedWidth(Len(blob), 4) \o CRC32_checksum(blob)
        \o <<2, 1>> \o blob

\* C12 as stated: the returned bytes are a 2-byte marker, then len4, then the
\* inner envelope, and len4 encodes the byte length of the inner envelope.
C12_MarkerThenLenOfInnerEnvelope ==
    FrameReturned =>
        /\ Len(ret[1].bytes) = 4 + Len(InnerEnvelope(call.arg.gif))
        /\ SubSeq(ret[1].bytes, 5, Len(ret[1].bytes)) = InnerEnvelope(call.arg.gif)
        /\ BigEndian(SubSeq(ret[1].bytes, 3, 4)) = Len(InnerEnvelope(call.arg.gif))

\* C12 amended: the returned bytes are len4 followed directly by the inner
\* envelope, with no marker; len4 encodes the byte length of the inner
\* envelope plus 2, which is the total length of the returned bytes.
C12_LenOfWholeEnvelope ==
    FrameReturned =>
        /\ Len(ret[1].bytes) = 2 + Len(InnerEnvelope(call.arg.gif))
        /\ SubSeq(ret[1].bytes, 3, Len(ret[1].bytes)) = InnerEnvelope(call.arg.gif)
        /\ BigEndian(SubSeq(ret[1].bytes, 1, 2)) = Len(InnerEnvelope(call.arg.gif)) + 2
        /\ BigEndian(SubSeq(ret[1].bytes, 1, 2)) = Len(ret[1].bytes)

\* an envelope of 17 bytes for a two-byte blob, led by the length field 00 11
C12_Witness ==
    /\ FrameReturned
    /\ Len(call.arg.gif) = 2
    /\ SubSeq(ret[1].bytes, 1, 2) = <<0, 17>>

\* a device command returned or raised
CmdDone(fn) == call.fn = fn /\ ret # <<>>

\* the numeric value of the command's argument, where it has one
ArgIsNumber == call.arg.kind = "int" \/ (call.arg.kind = "str" /\ IntParses(call.arg.s))

ArgNumber == IF call.arg.kind = "int" THEN call.arg.v ELSE IntOfStr(call.arg.s)

\* set_brightness(v) fails and returns no bytes for every v outside 0..100,
\* and returns 05 00 04 80 v for every v inside
BrightnessValidated ==
    (CmdDone("set_brightness") /\ ArgIsNumber) =>
        IF 0 <= ArgNumber /\ ArgNumber <= 100
        THEN ~ret[1].raised /\ ret[1].bytes = <<5, 0, 4, 128, ArgNumber>>
        ELSE ret[1].raised /\ ret[1].bytes = <<>>

\* C13: every numeric argument of a device command is range-validated:
\* set_brightness(v) fails and returns no bytes for every v outside 0..100,
\* and delete_screen(n) fails and returns no bytes for every n that is
\* negative or too large for the single index byte.
C13_ArgumentsRangeValidated ==
    /\ BrightnessValidated
    /\ (CmdDone("delete_screen") /\ ArgIsNumber
            /\ (ArgNumber < 0 \/ ArgNumber > 255))
        => (ret[1].raised /\ ret[1].bytes = <<>>)

\* C19: every byte sequence returned by clear, set_brightness, led_on, led_off
\* and delete_screen starts with a length field (first byte, second byte 00)
\* equal to the number of bytes returned.
C19_LengthFieldIsTotalLength ==
    (call.fn \in {"clear", "set_brightness", "led_on", "led_off", "delete_screen"}
        /\ ret # <<>> /\ ~ret[1].raised)
    => /\ ret[1].bytes[1] = Len(ret[1].bytes)
       /\ ret[1].bytes[2] = 0

\* the label loop has ended
LabelOver ==
    pc \in {"platform", "platform_digit", "delay", "delay_digit", "overlay",
            "done", "raised_delay"}

\* C16: label rendering stops at the first character whose start position is
\* >= width: that character and all later characters are not painted, and no
\* label glyph paints a column at or beyond width, a glyph cell that reaches
\* past width included.
C16_LabelStopsAtWidth ==
    LET labelEvents == LoopEvents("label")
        n == Len(labelEvents)
        nextStart == IF n = 0 THEN current_x + req.text_x_offset
                     ELSE labelEvents[n].x + labelEvents[n].w
    IN  /\ \A j \in 1..n : labelEvents[j].i = j /\ labelEvents[j].x < req.width
        /\ \A k \in 1..Len(ops) :
              ops[k].step = "label" =>
                  /\ ops[k].i <= n
                  /\ \A c \in PaintedColumns(ops[k]) : c < req.width
        /\ LabelOver => (n = Len(req.text) \/ nextStart >= req.width)

\* a returned canvas whose label stopped before its last character, with a
\* painted 16-pixel glyph cell that reaches past width
C16_Witness ==
    /\ Returned
    /\ Len(LoopEvents("label")) < Len(req.text)
    /\ \E k \in 1..Len(ops) :
          /\ ops[k].step = "label"
          /\ char_width(req.text[ops[k].i]) = 16
          /\ PaintedColumns(ops[k]) # {}
          /\ ops[k].dest[1] + ImgWidth(ops[k].img) > req.width

\* gen_image("12:34", "Mechelen", 0) on a 64x16 canvas
Scenario1 ==
    req = Request(64, <<"1", "2", ":", "3", "4">>,
                  <<77, 101, 99, 104, 101, 108, 101, 110>>, <<"0">>, NoPlatform, 0)

\* the columns of the painted clock characters' slots
ClockColumns ==
    UNION {events[n].x..(events[n].x + events[n].w - 1) :
              n \in {j \in 1..Len(events) : events[j].loop = "clock" /\ events[j].painted}}

\* C17 as stated: for "12:34", "Mechelen", delay 0 and no platform on a 64x16
\* canvas the clock glyphs occupy columns 0 through 10, the label/delay anchor
\* is column 11, and no plus or delay-digit glyph is painted.
C17_ClockEndsAtColumn11 ==
    (Scenario1 /\ Returned) =>
        /\ ClockColumns = 0..10
        /\ target_rect[1] = 11
        /\ delay_x = 11
        /\ StepOps("delay") = <<>>

\* C17 amended: the clock glyphs occupy columns 0 through 17 (digits at 0, 4,
\* 10 and 14, the colon at 8), the label/delay anchor is column 18, and no
\* plus or delay-digit glyph is painted.
C17_ClockEndsAtColumn18 ==
    (Scenario1 /\ Returned) =>
        /\ StepOps("clock") =
              <<Paint("clock", 1, get_digit_from_tall_digits("1"), <<0, 5>>),
                Paint("clock", 2, get_digit_from_tall_digits("2"), <<4, 5>>),
                Paint("clock", 3, Region("colon", <<>>), <<8, 5>>),
                Paint("clock", 4, get_digit_from_tall_digits("3"), <<10, 5>>),
                Paint("clock", 5, get_digit_from_tall_digits("4"), <<14, 5>>)>>
        /\ ClockColumns = 0..17
        /\ target_rect[1] = 18
        /\ delay_x = 18
        /\ LoopEvents("label")[1].x = 18
        /\ StepOps("delay") = <<>>

\* the canvas of the scenario was returned with its five clock glyphs painted
C17_Witness ==
    /\ Scenario1
    /\ Returned
    /\ Len(StepOps("clock")) = 5

\* the clock step has ended and gen_image went on
ClockOver == pc = "label" \/ LabelOver

TaskWrites(t) == SelectSeq(writes, LAMBDA w : w.task = t)

\* no write_gatt_char call is ever begun: line 16 of ipixel.py raises first
NoWriteBegins == writes = <<>>

\* an update_screen call with at least one canvas ends by raising
UpdateScreenRaises ==
    \A t \in DOMAIN tasks :
        (tasks[t].fn = "update_screen" /\ tasks[t].pc \in {"returned", "raised"}) =>
            (tasks[t].pc = "raised" <=> tasks[t].images # <<>>)

\* C14: update_screen called with n canvases (a list, or one canvas: n = 1)
\* issues exactly n writes, one envelope per canvas in list order, and the
\* write for canvas i+1 does not begin until the write for canvas i completed.
C14_OneWritePerCanvasInOrder ==
    \A t \in DOMAIN tasks :
        tasks[t].fn = "update_screen" =>
            LET mine == TaskWrites(t)
            IN  /\ \A k \in 1..Len(mine) :
                      /\ mine[k].i = k
                      /\ mine[k].bytes =
                            send_animation([kind |-> "Image",
                                            gif |-> tasks[t].images[k]]).bytes
                      /\ k < Len(mine) => mine[k].done
                /\ tasks[t].pc \in {"returned", "raised"} =>
                      /\ Len(mine) = Len(tasks[t].images)
                      /\ \A k \in 1..Len(mine) : mine[k].done

\* C21 as stated: the painted clock characters form a prefix of the clock
\* text: once a character has been dropped for lack of room, no later
\* character is painted.
C21_PaintedClockIsPrefix ==
    LET clockEvents == LoopEvents("clock")
    IN  \A a, b \in 1..Len(clockEvents) :
            (a < b /\ ~clockEvents[a].painted) => ~clockEvents[b].painted

\* C21 amended: once a colon has been dropped no later character is painted,
\* and once a digit has been dropped no later digit is painted; a colon after
\* a dropped digit is still painted whenever it starts below width, so the
\* painted characters need not form a prefix.
C21_NoDigitAfterDrop ==
    LET clockEvents == LoopEvents("clock")
    IN  \A a, b \in 1..Len(clockEvents) :
            (a < b /\ ~clockEvents[a].painted) =>
                /\ clockEvents[a].w = 2 => ~clockEvents[b].painted
                /\ clockEvents[b].w = 4 => ~clockEvents[b].painted
                /\ clockEvents[b].w = 2 =>
                      (clockEvents[b].painted <=> clockEvents[b].x < req.width)

\* a returned canvas whose clock step dropped a digit and painted a colon
\* after it
C21_Witness ==
    /\ Returned
    /\ \E a, b \in 1..Len(events) :
          /\ a < b
          /\ events[a].loop = "clock" /\ events[a].w = 4 /\ ~events[a].painted
          /\ events[b].loop = "clock" /\ events[b].w = 2 /\ events[b].painted

====
